---- MODULE Spec2Model ----
(***************************************************************************)
(* RecruiterLab: the transcribe-audio and process-interview edge functions, *)
(* the relational schema they write to, and the browser upload flows that   *)
(* invoke them.  Handler invocations are independent processes; every       *)
(* await on the database or on an external service is an interleaving      *)
(* point.                                                                   *)
(***************************************************************************)
EXTENDS Integers, Sequences, FiniteSets, TLC

\* ------------------------------------------------------------------ bounds
MaxFlows == 1
MaxCalls == 1
MaxBytes == 4
MaxChunk == 5
MaxHookCalls == 2
MaxStarts == 3
MaxRows == 3
MaxRenders == 1
StepCount == 4
WizardSteps == 4
LongText == 501

\* ------------------------------------------------------- program constants
DefaultChunkSize == 32768
FallbackLength == 500

Null == "null"
Users == {"u1", "u2"}

Min(a, b) == IF a < b THEN a ELSE b

\* ------------------------------------------------------------------ base64
\* A base64 string is a sequence of digit values 0..63, with Pad for '='.
Pad == 64
ByteSamples == {0, 77, 255}

RECURSIVE btoa(_)
btoa(B) ==
  IF Len(B) = 0 THEN << >>
  ELSE IF Len(B) = 1 THEN
    << B[1] \div 4, (B[1] % 4) * 16, Pad, Pad >>
  ELSE IF Len(B) = 2 THEN
    << B[1] \div 4, (B[1] % 4) * 16 + (B[2] \div 16), (B[2] % 16) * 4, Pad >>
  ELSE
    << B[1] \div 4, (B[1] % 4) * 16 + (B[2] \div 16),
       (B[2] % 16) * 4 + (B[3] \div 64), B[3] % 64 >>
      \o btoa(SubSeq(B, 4, Len(B)))

\* The digits of s with the padding that forgiving-base64 decoding strips.
StripPadding(s) ==
  IF Len(s) > 0 /\ Len(s) % 4 = 0 /\ s[Len(s)] = Pad
  THEN IF Len(s) > 1 /\ s[Len(s) - 1] = Pad
       THEN SubSeq(s, 1, Len(s) - 2)
       ELSE SubSeq(s, 1, Len(s) - 1)
  ELSE s

RECURSIVE DecodeDigits(_)
DecodeDigits(d) ==
  IF Len(d) < 2 THEN << >>
  ELSE IF Len(d) = 2 THEN << d[1] * 4 + (d[2] \div 16) >>
  ELSE IF Len(d) = 3 THEN
    << d[1] * 4 + (d[2] \div 16), (d[2] % 16) * 16 + (d[3] \div 4) >>
  ELSE
    << d[1] * 4 + (d[2] \div 16), (d[2] % 16) * 16 + (d[3] \div 4),
       (d[3] % 4) * 64 + d[4] >>
      \o DecodeDigits(SubSeq(d, 5, Len(d)))

\* atob: forgiving-base64 decoding; ok is FALSE where atob throws.
InvalidCharacterError == [ok |-> FALSE, bytes |-> << >>]
Decoded(bytes) == [ok |-> TRUE, bytes |-> bytes]

atob(s) ==
  LET d == StripPadding(s) IN
  IF Len(d) % 4 = 1 THEN InvalidCharacterError
  ELSE IF \E i \in 1..Len(d) : d[i] = Pad THEN InvalidCharacterError
  ELSE Decoded(DecodeDigits(d))

\* The while loop of processBase64Chunks from `position` on, `result` being
\* the chunks decoded so far, concatenated.
RECURSIVE processBase64ChunksFrom(_, _, _, _)
processBase64ChunksFrom(base64String, chunkSize, position, result) ==
  IF position >= Len(base64String) THEN Decoded(result)
  ELSE
    LET chunk == SubSeq(base64String, position + 1,
                        Min(position + chunkSize, Len(base64String)))
        binaryChunk == atob(chunk)
    IN IF ~binaryChunk.ok THEN InvalidCharacterError
       ELSE processBase64ChunksFrom(base64String, chunkSize,
                                    position + chunkSize,
                                    result \o binaryChunk.bytes)

processBase64Chunks(base64String, chunkSize) ==
  processBase64ChunksFrom(base64String, chunkSize, 0, << >>)

\* -------------------------------------------------------------------- text
\* A text is a sequence of lexical units; a unit stands for the characters
\* it spells.  Punctuation units are the JSON structural characters, a
\* "str" unit is a double-quoted string literal, a "word" unit is any other
\* run of characters.
P(c) == [t |-> "punct", v |-> c]
S(name) == [t |-> "str", v |-> name]
W(w) == [t |-> "word", v |-> w]

SyntaxError == [ok |-> FALSE, value |-> Null]
JsonString(unit) == [type |-> "string", fields |-> [k \in {} |-> << >>],
                     text |-> << W(unit.v) >>]
JsonObject(f) == [type |-> "object", fields |-> f, text |-> << >>]

\* The members  "k" : "v" { , "k" : "v" }  of an object, last key wins.
RECURSIVE ParseMembers(_, _)
ParseMembers(toks, acc) ==
  IF Len(toks) < 3 \/ toks[1].t # "str" \/ toks[2] # P(":") \/ toks[3].t # "str"
  THEN SyntaxError
  ELSE
    LET k == toks[1].v
        f == [x \in (DOMAIN acc) \cup {k} |->
                IF x = k THEN << W(toks[3].v) >> ELSE acc[x]]
    IN IF Len(toks) = 3 THEN [ok |-> TRUE, value |-> JsonObject(f)]
       ELSE IF toks[4] # P(",") THEN SyntaxError
       ELSE ParseMembers(SubSeq(toks, 5, Len(toks)), f)

\* JSON.parse on the texts the model draws: a string literal, or an object
\* of string members; anything else is a SyntaxError.
JSONparse(toks) ==
  IF Len(toks) = 1 /\ toks[1].t = "str"
    THEN [ok |-> TRUE, value |-> JsonString(toks[1])]
  ELSE IF Len(toks) >= 2 /\ toks[1] = P("{") /\ toks[Len(toks)] = P("}")
    THEN IF Len(toks) = 2
         THEN [ok |-> TRUE, value |-> JsonObject([k \in {} |-> << >>])]
         ELSE ParseMembers(SubSeq(toks, 2, Len(toks) - 1), [k \in {} |-> << >>])
  ELSE SyntaxError

substring(text, from, to) == SubSeq(text, from + 1, Min(to, Len(text)))

Placeholder == << W("Please review the full analysis") >>
SummaryKeys ==
  {"jobSummary", "mustHaves", "challenges", "jobDescription", "recapEmail"}

\* A variant of the fallback that stores the raw text without cutting it.
FallbackSummaryUncut(aiResponse) ==
  JsonObject([k \in SummaryKeys |->
                IF k = "jobSummary" THEN aiResponse ELSE Placeholder])

\* process-interview, the catch branch of JSON.parse(aiResponse).
FallbackSummary(aiResponse) ==
  JsonObject([k \in SummaryKeys |->
                IF k = "jobSummary"
                THEN substring(aiResponse, 0, FallbackLength)
                ELSE Placeholder])

summaryContentOf(aiResponse) ==
  LET parsed == JSONparse(aiResponse)
  IN IF parsed.ok THEN parsed.value ELSE FallbackSummary(aiResponse)

Keys(value) == DOMAIN value.fields

\* The texts the chat-completion service is taken to answer with.
Member(k) == << S(k), P(":"), S("text") >>
FiveKeyJson ==
  << P("{") >> \o Member("jobSummary") \o << P(",") >> \o Member("mustHaves")
    \o << P(",") >> \o Member("challenges") \o << P(",") >>
    \o Member("jobDescription") \o << P(",") >> \o Member("recapEmail")
    \o << P("}") >>
OtherKeyJson == << P("{") >> \o Member("strengths") \o << P("}") >>
TruncatedJson == << P("{") >> \o Member("jobSummary") \o << P(",") >>
LongPlainText == [i \in 1..LongText |-> W("x")]
ChatContents == {FiveKeyJson, OtherKeyJson, TruncatedJson, LongPlainText}

\* ------------------------------------------------------------------ schema
StatusValues == {"uploading", "processing", "completed", "failed"}
ServiceRole == "service_role"

\* summary_templates: the template rows of the database, by id.
Templates ==
  [t \in {"t1", "t2"} |->
     [user_id |-> IF t = "t1" THEN "u1" ELSE "u2",
      template_content |-> << S("sections") >>]]
TemplateIds == {Null, "t1", "t2", "t0"}

\* Interview ids are 1, 2, ... in order of insertion; NoId is an absent id.
NoId == 0
InterviewIds == 1..(MaxFlows + 1)

VARIABLES
  interviews,     \* table interviews: id -> row
  statusWrites,   \* per interview, the status values written, with the writer
  summaries,      \* table interview_summaries, in insertion order
  storage,        \* object keys in bucket interview-audio
  invs,           \* handler invocations, by invocation id
  flows,          \* client upload flows
  b64,            \* one evaluation of processBase64Chunks
  dashboard,      \* Dashboard page: uploadFlow, currentInterviewId, toast
  tracker,        \* ProgressTracker: its state and its running timer chains
  hook,           \* one useOptimisticUpdates instance and its calls
  wizard,         \* one QuickStartWizard instance and its timers
  reader          \* what the summary readers of the UI have surfaced

\* The components that take no part in the upload flow.
ui == << hook, wizard, reader >>
vars == << interviews, statusWrites, summaries, storage, invs, flows, b64,
           dashboard, tracker, ui >>

\* auth.getUser(token): the user a bearer token identifies, if any.
getUser(token) == IF token \in Users THEN token ELSE Null

\* A variant of the table without the CHECK on status.
UpdateAcceptedUnchecked(tbl, id, patch, uid) ==
  /\ id \in DOMAIN tbl
  /\ uid = ServiceRole \/ tbl[id].user_id = uid

\* UPDATE interviews SET patch WHERE id = id, as role uid.  The row-level
\* policy hides rows of other users from every role but the service role;
\* the CHECK on status rejects the whole statement.
UpdateAccepted(tbl, id, patch, uid) ==
  /\ id \in DOMAIN tbl
  /\ uid = ServiceRole \/ tbl[id].user_id = uid
  /\ "status" \in DOMAIN patch => patch.status \in StatusValues

UpdateInterview(tbl, id, patch, uid) ==
  IF UpdateAccepted(tbl, id, patch, uid)
  THEN [tbl EXCEPT ![id] =
          [k \in DOMAIN tbl[id] |->
             IF k \in DOMAIN patch THEN patch[k] ELSE tbl[id][k]]]
  ELSE tbl

LogStatus(log, tbl, id, patch, uid, by) ==
  IF UpdateAccepted(tbl, id, patch, uid) /\ "status" \in DOMAIN patch
  THEN [log EXCEPT ![id] = Append(@, [by |-> by, val |-> patch.status])]
  ELSE log

\* A variant of the table with a UNIQUE constraint on interview_id.
SummaryInsertErrorUnique(row, tbl, rows) ==
  IF row.interview_id = NoId THEN "null value in column interview_id"
  ELSE IF row.interview_id \notin DOMAIN tbl
    THEN "violates foreign key constraint on interview_id"
  ELSE IF row.template_id # Null /\ row.template_id \notin DOMAIN Templates
    THEN "violates foreign key constraint on template_id"
  ELSE IF \E k \in DOMAIN rows : rows[k].interview_id = row.interview_id
    THEN "duplicate key value violates unique constraint"
  ELSE Null

\* INSERT INTO interview_summaries: the constraint the row violates, if any.
SummaryInsertError(row, tbl, rows) ==
  IF row.interview_id = NoId THEN "null value in column interview_id"
  ELSE IF row.interview_id \notin DOMAIN tbl
    THEN "violates foreign key constraint on interview_id"
  ELSE IF row.template_id # Null /\ row.template_id \notin DOMAIN Templates
    THEN "violates foreign key constraint on template_id"
  ELSE Null

\* storage.objects policy: the first folder of the key is the caller's id.
StoragePolicyAllows(key, uid) == Len(key.folder) > 0 /\ key.folder[1] = uid

\* ------------------------------------------------------------- invocations
Undefined == [defined |-> FALSE, s |-> << >>]
Str(s) == [defined |-> TRUE, s |-> s]
\* A variant of the emptiness test that lets the empty string through.
FalsyOnlyUndefined(v) == ~v.defined
\* !v for a string-or-undefined value: undefined and "" are both falsy.
Falsy(v) == ~v.defined \/ Len(v.s) = 0

\* A response: error is the fixed part of the message, detail the text the
\* handler interpolates into it.
NoResult == [status |-> 0, success |-> FALSE, error |-> Null, detail |-> << >>]
NoContent == [type |-> "none", fields |-> [k \in {} |-> << >>], text |-> << >>]

SampleBytes == << 77, 0, 255 >>
SampleTranscript == << W("Candidate"), W("has"), W("5"), W("years") >>

NewInvocation(fn, auth, interviewId, audioData, transcript, templateId, caller) ==
  [fn |-> fn, pc |-> "start", auth |-> auth, interviewId |-> interviewId,
   audioData |-> audioData, transcript |-> transcript,
   templateId |-> templateId, caller |-> caller,
   user |-> Null, template |-> << >>, systemPrompt |-> Null,
   aiResponse |-> << >>, summaryContent |-> NoContent,
   sttCalls |-> 0, chatCalls |-> 0, child |-> 0,
   result |-> NoResult]

\* A variant of the catch block that leaves the response status at its default.
ErrorResponseDefaultStatus(message, detail) ==
  [status |-> 200, success |-> FALSE, error |-> message, detail |-> detail]
\* The catch block: { error: error.message, success: false }, status 500.
ErrorResponse(message, detail) ==
  [status |-> 500, success |-> FALSE, error |-> message, detail |-> detail]
\* The success response: { success: true, ... }, status 200.
OkResponse ==
  [status |-> 200, success |-> TRUE, error |-> Null, detail |-> << >>]

Fail(i, message) ==
  invs' = [invs EXCEPT ![i].pc = "done",
             ![i].result = ErrorResponse(message, << >>)]

Direct == [kind |-> "direct", id |-> 0]
ByFlow(f) == [kind |-> "flow", id |-> f]
ByInvocation(i) == [kind |-> "invocation", id |-> i]

DirectCalls == Cardinality({i \in DOMAIN invs : invs[i].caller = Direct})

\* String.prototype.trim on a text: leading and trailing blanks removed.
Space == [t |-> "space", v |-> " "]
RECURSIVE trim(_)
trim(text) ==
  IF Len(text) = 0 THEN text
  ELSE IF text[1] = Space THEN trim(Tail(text))
  ELSE IF text[Len(text)] = Space THEN trim(SubSeq(text, 1, Len(text) - 1))
  ELSE text

\* The answers of the speech-to-text endpoint and of the chat endpoint.
WhisperResponses ==
  {[ok |-> FALSE, text |-> t] :
     t \in {<< W("upstream error body") >>, << W("rate limit") >>}}
    \cup {[ok |-> TRUE, text |-> t] : t \in {<< >>, << Space >>, SampleTranscript}}
ChatResponses ==
  {[ok |-> FALSE, content |-> << >>]}
    \cup {[ok |-> TRUE, content |-> c] : c \in ChatContents}

\* ---------------------------------------------------------- transcribe-audio
IsTranscribe(i) == i \in DOMAIN invs /\ invs[i].fn = "transcribe-audio"

\* Authorization header, auth.getUser, request body and its required fields.
T_Authenticate(i) ==
  /\ IsTranscribe(i) /\ invs[i].pc = "start"
  /\ IF invs[i].auth = Null THEN Fail(i, "Missing authorization header")
     ELSE IF getUser(invs[i].auth) = Null THEN Fail(i, "Unauthorized")
     ELSE IF invs[i].interviewId = NoId \/ Falsy(invs[i].audioData)
       THEN Fail(i, "Missing interviewId or audioData")
     ELSE invs' = [invs EXCEPT ![i].user = getUser(invs[i].auth),
                               ![i].pc = "lookup"]
  /\ UNCHANGED << interviews, statusWrites, summaries, storage, flows,
                  b64, dashboard, tracker, ui >>

\* A variant of the lookup that marks the interview before checking its owner.
T_LookupAfterUpdate(i) ==
  /\ IsTranscribe(i) /\ invs[i].pc = "lookup"
  /\ interviews' = UpdateInterview(interviews, invs[i].interviewId,
                                   [status |-> "processing"], ServiceRole)
  /\ statusWrites' = LogStatus(statusWrites, interviews, invs[i].interviewId,
                               [status |-> "processing"], ServiceRole,
                               ByInvocation(i))
  /\ IF /\ invs[i].interviewId \in DOMAIN interviews
        /\ interviews[invs[i].interviewId].user_id = invs[i].user
     THEN invs' = [invs EXCEPT ![i].pc = "whisper"]
     ELSE Fail(i, "Interview not found or unauthorized")
  /\ UNCHANGED << summaries, storage, flows, b64, dashboard, tracker, ui >>

\* select * from interviews where id = interviewId and user_id = user.id
T_Lookup(i) ==
  /\ IsTranscribe(i) /\ invs[i].pc = "lookup"
  /\ IF /\ invs[i].interviewId \in DOMAIN interviews
        /\ interviews[invs[i].interviewId].user_id = invs[i].user
     THEN invs' = [invs EXCEPT ![i].pc = "update"]
     ELSE Fail(i, "Interview not found or unauthorized")
  /\ UNCHANGED << interviews, statusWrites, summaries, storage, flows,
                  b64, dashboard, tracker, ui >>

\* A variant of the update that leaves a completed interview alone.
T_MarkProcessingGuarded(i) ==
  /\ IsTranscribe(i) /\ invs[i].pc = "update"
  /\ LET patch == [status |-> "processing"]
         open == interviews[invs[i].interviewId].status # "completed"
     IN /\ interviews' = IF open
                         THEN UpdateInterview(interviews, invs[i].interviewId,
                                              patch, ServiceRole)
                         ELSE interviews
        /\ statusWrites' = IF open
                           THEN LogStatus(statusWrites, interviews,
                                  invs[i].interviewId, patch, ServiceRole,
                                  ByInvocation(i))
                           ELSE statusWrites
  /\ invs' = [invs EXCEPT ![i].pc = "whisper"]
  /\ UNCHANGED << summaries, storage, flows, b64, dashboard, tracker, ui >>

\* update({ status: 'processing' }).eq('id', interviewId), unconditionally.
T_MarkProcessing(i) ==
  /\ IsTranscribe(i) /\ invs[i].pc = "update"
  /\ interviews' = UpdateInterview(interviews, invs[i].interviewId,
                                   [status |-> "processing"], ServiceRole)
  /\ statusWrites' = LogStatus(statusWrites, interviews, invs[i].interviewId,
                               [status |-> "processing"], ServiceRole,
                               ByInvocation(i))
  /\ invs' = [invs EXCEPT ![i].pc = "whisper"]
  /\ UNCHANGED << summaries, storage, flows, b64, dashboard, tracker, ui >>

\* A variant of the error that leaves the service's answer out of the message.
WhisperErrorNoBody(openAIResponse) == ErrorResponse("OpenAI API error: ", << >>)
\* throw new Error(`OpenAI API error: ${errorText}`) as the catch block sends it.
WhisperError(openAIResponse) ==
  ErrorResponse("OpenAI API error: ", openAIResponse.text)

\* A variant of the call that marks the interview failed on a refused request.
T_WhisperMarksFailed(i) ==
  /\ IsTranscribe(i) /\ invs[i].pc = "whisper"
  /\ \E openAIResponse \in WhisperResponses :
       LET called == [invs EXCEPT ![i].sttCalls = @ + 1]
           transcribed == [called EXCEPT ![i].transcript = openAIResponse.text]
           patch == [status |-> "failed"]
       IN /\ invs' =
               IF ~openAIResponse.ok
               THEN [called EXCEPT ![i].pc = "done",
                                   ![i].result = WhisperError(openAIResponse)]
               ELSE IF Len(trim(openAIResponse.text)) = 0
                 THEN [transcribed EXCEPT ![i].pc = "done",
                         ![i].result =
                           ErrorResponse("No transcription received from OpenAI",
                                         << >>)]
               ELSE [transcribed EXCEPT ![i].pc = "invoke"]
          /\ interviews' = IF openAIResponse.ok THEN interviews
                           ELSE UpdateInterview(interviews, invs[i].interviewId,
                                                patch, ServiceRole)
          /\ statusWrites' = IF openAIResponse.ok THEN statusWrites
                             ELSE LogStatus(statusWrites, interviews,
                                    invs[i].interviewId, patch, ServiceRole,
                                    ByInvocation(i))
  /\ UNCHANGED << summaries, storage, flows, b64, dashboard, tracker, ui >>

\* Decode the payload, post it to the speech-to-text endpoint, read the answer.
T_Whisper(i) ==
  /\ IsTranscribe(i) /\ invs[i].pc = "whisper"
  /\ IF ~processBase64Chunks(invs[i].audioData.s, DefaultChunkSize).ok
     THEN Fail(i, "InvalidCharacterError")
     ELSE \E openAIResponse \in WhisperResponses :
       LET called == [invs EXCEPT ![i].sttCalls = @ + 1]
           transcribed == [called EXCEPT ![i].transcript = openAIResponse.text]
       IN invs' =
            IF ~openAIResponse.ok
            THEN [called EXCEPT ![i].pc = "done",
                                ![i].result = WhisperError(openAIResponse)]
            ELSE IF Len(trim(openAIResponse.text)) = 0
              THEN [transcribed EXCEPT ![i].pc = "done",
                      ![i].result =
                        ErrorResponse("No transcription received from OpenAI",
                                      << >>)]
            ELSE [transcribed EXCEPT ![i].pc = "invoke"]
  /\ UNCHANGED << interviews, statusWrites, summaries, storage, flows,
                  b64, dashboard, tracker, ui >>

\* A variant of the invoke that forwards no Authorization header.
T_InvokeAnalysisNoHeader(i) ==
  /\ IsTranscribe(i) /\ invs[i].pc = "invoke"
  /\ invs' = Append([invs EXCEPT ![i].pc = "await", ![i].child = Len(invs) + 1],
                    NewInvocation("process-interview", Null,
                                  invs[i].interviewId, Undefined,
                                  invs[i].transcript, Null, ByInvocation(i)))
  /\ UNCHANGED << interviews, statusWrites, summaries, storage, flows,
                  b64, dashboard, tracker, ui >>

\* supabase.functions.invoke('process-interview') with the caller's header.
T_InvokeAnalysis(i) ==
  /\ IsTranscribe(i) /\ invs[i].pc = "invoke"
  /\ invs' = Append([invs EXCEPT ![i].pc = "await", ![i].child = Len(invs) + 1],
                    NewInvocation("process-interview", invs[i].auth,
                                  invs[i].interviewId, Undefined,
                                  invs[i].transcript, Null, ByInvocation(i)))
  /\ UNCHANGED << interviews, statusWrites, summaries, storage, flows,
                  b64, dashboard, tracker, ui >>

\* A variant of the return that does not inspect processResponse.error.
T_ReturnUnchecked(i) ==
  /\ IsTranscribe(i) /\ invs[i].pc = "await"
  /\ invs[invs[i].child].pc = "done"
  /\ invs' = [invs EXCEPT ![i].pc = "done", ![i].result = OkResponse]
  /\ UNCHANGED << interviews, statusWrites, summaries, storage, flows,
                  b64, dashboard, tracker, ui >>

\* processResponse.error is set when the analysis answered a non-2xx status.
T_Return(i) ==
  /\ IsTranscribe(i) /\ invs[i].pc = "await"
  /\ invs[invs[i].child].pc = "done"
  /\ IF invs[invs[i].child].result.status # 200
     THEN Fail(i, "Failed to process transcript")
     ELSE invs' = [invs EXCEPT ![i].pc = "done", ![i].result = OkResponse]
  /\ UNCHANGED << interviews, statusWrites, summaries, storage, flows,
                  b64, dashboard, tracker, ui >>

\* --------------------------------------------------------- process-interview
IsProcess(i) == i \in DOMAIN invs /\ invs[i].fn = "process-interview"

P_Authenticate(i) ==
  /\ IsProcess(i) /\ invs[i].pc = "start"
  /\ IF invs[i].auth = Null THEN Fail(i, "No authorization header")
     ELSE IF getUser(invs[i].auth) = Null THEN Fail(i, "Invalid authorization")
     ELSE invs' = [invs EXCEPT ![i].user = getUser(invs[i].auth),
                               ![i].pc = "template"]
  /\ UNCHANGED << interviews, statusWrites, summaries, storage, flows,
                  b64, dashboard, tracker, ui >>

\* select template_content from summary_templates where id and user_id match
templateFor(templateId, user) ==
  IF /\ templateId # Null
     /\ templateId \in DOMAIN Templates
     /\ Templates[templateId].user_id = user
  THEN Templates[templateId].template_content
  ELSE << >>

systemPromptFor(template) == IF Len(template) > 0 THEN "template" ELSE "default"

P_Template(i) ==
  /\ IsProcess(i) /\ invs[i].pc = "template"
  /\ LET template == templateFor(invs[i].templateId, invs[i].user)
     IN invs' = [invs EXCEPT ![i].template = template,
                   ![i].systemPrompt = systemPromptFor(template),
                   ![i].pc = "chat"]
  /\ UNCHANGED << interviews, statusWrites, summaries, storage, flows,
                  b64, dashboard, tracker, ui >>

\* A variant of the chat call that repeats the request once after a failure.
P_ChatRetried(i) ==
  /\ IsProcess(i) /\ invs[i].pc = "chat"
  /\ \E response \in ChatResponses :
       LET called == [invs EXCEPT ![i].chatCalls = @ + 1]
       IN invs' =
            IF ~response.ok /\ invs[i].chatCalls = 0 THEN called
            ELSE IF ~response.ok
            THEN [called EXCEPT ![i].pc = "done",
                    ![i].result =
                      ErrorResponse("OpenAI API error: statusText", << >>)]
            ELSE [called EXCEPT ![i].aiResponse = response.content,
                    ![i].summaryContent = summaryContentOf(response.content),
                    ![i].pc = "insert"]
  /\ UNCHANGED << interviews, statusWrites, summaries, storage, flows,
                  b64, dashboard, tracker, ui >>

\* fetch to the chat endpoint; if (!response.ok) throw; parse the content.
P_Chat(i) ==
  /\ IsProcess(i) /\ invs[i].pc = "chat"
  /\ \E response \in ChatResponses :
       LET called == [invs EXCEPT ![i].chatCalls = @ + 1]
       IN invs' =
            IF ~response.ok
            THEN [called EXCEPT ![i].pc = "done",
                    ![i].result =
                      ErrorResponse("OpenAI API error: statusText", << >>)]
            ELSE [called EXCEPT ![i].aiResponse = response.content,
                    ![i].summaryContent = summaryContentOf(response.content),
                    ![i].pc = "insert"]
  /\ UNCHANGED << interviews, statusWrites, summaries, storage, flows,
                  b64, dashboard, tracker, ui >>

summaryRow(i) ==
  [interview_id |-> invs[i].interviewId,
   template_id |-> invs[i].templateId,
   summary_content |-> invs[i].summaryContent,
   ai_model_used |-> "gpt-4o-mini",
   transcript_text |-> invs[i].transcript,
   by |-> i]

\* A variant of the insert that marks the interview completed beforehand.
P_InsertMarkedFirst(i) ==
  /\ IsProcess(i) /\ invs[i].pc = "insert"
  /\ interviews' = UpdateInterview(interviews, invs[i].interviewId,
                                   [status |-> "completed"], ServiceRole)
  /\ statusWrites' = LogStatus(statusWrites, interviews, invs[i].interviewId,
                               [status |-> "completed"], ServiceRole,
                               ByInvocation(i))
  /\ LET summaryError == SummaryInsertError(summaryRow(i), interviews, summaries)
     IN IF summaryError # Null
        THEN Fail(i, summaryError) /\ UNCHANGED summaries
        ELSE /\ summaries' = Append(summaries, summaryRow(i))
             /\ invs' = [invs EXCEPT ![i].pc = "done", ![i].result = OkResponse]
  /\ UNCHANGED << storage, flows, b64, dashboard, tracker, ui >>

\* insert into interview_summaries; if (summaryError) throw summaryError
P_Insert(i) ==
  /\ IsProcess(i) /\ invs[i].pc = "insert"
  /\ LET summaryError == SummaryInsertError(summaryRow(i), interviews, summaries)
     IN IF summaryError # Null
        THEN Fail(i, summaryError) /\ UNCHANGED summaries
        ELSE /\ summaries' = Append(summaries, summaryRow(i))
             /\ invs' = [invs EXCEPT ![i].pc = "update"]
  /\ UNCHANGED << interviews, statusWrites, storage, flows,
                  b64, dashboard, tracker, ui >>

P_Complete(i) ==
  /\ IsProcess(i) /\ invs[i].pc = "update"
  /\ interviews' = UpdateInterview(interviews, invs[i].interviewId,
                                   [status |-> "completed"], ServiceRole)
  /\ statusWrites' = LogStatus(statusWrites, interviews, invs[i].interviewId,
                               [status |-> "completed"], ServiceRole,
                               ByInvocation(i))
  /\ invs' = [invs EXCEPT ![i].pc = "done", ![i].result = OkResponse]
  /\ UNCHANGED << summaries, storage, flows, b64, dashboard, tracker, ui >>

\* ------------------------------------------------- requests from any caller
\* An unauthenticated request carries an otherwise acceptable body.
TranscribeRequests ==
  {[auth |-> a, interviewId |-> 1, audioData |-> Str(btoa(SampleBytes))] :
     a \in {Null, "bad"}}
  \cup {[auth |-> u, interviewId |-> 1, audioData |-> d] :
          u \in Users,
          d \in {Undefined, Str(btoa(<< >>)), Str(btoa(SampleBytes))}}
  \cup {[auth |-> u, interviewId |-> id, audioData |-> Str(btoa(SampleBytes))] :
          u \in Users, id \in {NoId} \cup InterviewIds}

ProcessRequests ==
  {[auth |-> a, interviewId |-> 1, templateId |-> Null] : a \in {Null, "bad"}}
  \cup {[auth |-> u, interviewId |-> 1, templateId |-> t] :
          u \in Users, t \in TemplateIds}
  \cup {[auth |-> u, interviewId |-> id, templateId |-> Null] :
          u \in Users, id \in InterviewIds}

InvokeTranscribe ==
  /\ DirectCalls < MaxCalls
  /\ \E req \in TranscribeRequests :
       invs' = Append(invs, NewInvocation("transcribe-audio", req.auth,
                        req.interviewId, req.audioData, << >>, Null, Direct))
  /\ UNCHANGED << interviews, statusWrites, summaries, storage, flows,
                  b64, dashboard, tracker, ui >>

InvokeProcess ==
  /\ DirectCalls < MaxCalls
  /\ \E req \in ProcessRequests :
       invs' = Append(invs, NewInvocation("process-interview", req.auth,
                        req.interviewId, Undefined, SampleTranscript,
                        req.templateId, Direct))
  /\ UNCHANGED << interviews, statusWrites, summaries, storage, flows,
                  b64, dashboard, tracker, ui >>

\* ------------------------------------------------------- Dashboard handlers
\* handleUploadComplete(interviewId), passed to StreamlinedUpload.
handleUploadComplete(d, interviewId) ==
  [d EXCEPT !.currentInterviewId = interviewId, !.uploadFlow = "processing",
            !.toast = "Upload successful"]
\* handleProcessingComplete, passed to StreamlinedUpload and to
\* ProgressTracker (as onComplete).
handleProcessingComplete(d) ==
  [d EXCEPT !.uploadFlow = "complete", !.toast = "Analysis complete!"]
\* ProgressTracker is rendered only while uploadFlow is 'processing'; its
\* timers are not cleared when it goes.
Rendered(t, d) == [t EXCEPT !.mounted = @ /\ d.uploadFlow = "processing"]

\* ------------------------------------------------------ client upload flows
\* A flow is one run of an upload component's submit handler together with
\* the FileReader callback it schedules.
Client(f) == ByFlow(f)
Files ==
  {[kind |-> "txt", bytes |-> << >>]}
    \cup {[kind |-> "audio", bytes |-> b] : b \in {<< >>, SampleBytes}}

ObjectKey(folder, id, file) == [folder |-> folder, id |-> id, kind |-> file.kind]
PublicUrl(key) == [defined |-> TRUE, key |-> key]
NoUrl == [defined |-> FALSE, key |-> ObjectKey(<< >>, NoId, [kind |-> "txt"])]

NewFlow(component, user, file, consentObtained, step) ==
  [component |-> component, pc |-> "upload", user |-> user, file |-> file,
   consentObtained |-> consentObtained, interviewId |-> Len(interviews) + 1,
   call |-> 0, currentStep |-> step, toast |-> Null]

\* insert into interviews (...) values (...) by the signed-in user
InsertInterview(user, consentObtained, file_url, f) ==
  /\ interviews' = Append(interviews,
       [user_id |-> user, status |-> "uploading", file_url |-> file_url,
        consent_obtained |-> consentObtained])
  /\ statusWrites' = Append(statusWrites,
       << [by |-> Client(f), val |-> "uploading"] >>)

IsFlow(f, component) == f \in DOMAIN flows /\ flows[f].component = component

\* StreamlinedUpload.startUpload up to the interview insert.
SU_startUpload ==
  /\ dashboard.uploadFlow = "upload"
  /\ Len(flows) < MaxFlows
  /\ \E user \in Users, file \in Files :
       /\ flows' = Append(flows,
            NewFlow("StreamlinedUpload", user, file, FALSE, "uploading"))
       /\ InsertInterview(user, FALSE, NoUrl, Len(flows) + 1)
  /\ UNCHANGED << summaries, storage, invs, b64, dashboard, tracker, ui >>

\* storage.from('interview-audio').upload(`${user.id}/${interview.id}-${name}`)
SU_upload(f) ==
  /\ IsFlow(f, "StreamlinedUpload") /\ flows[f].pc = "upload"
  /\ LET fileName == ObjectKey(<< flows[f].user >>, flows[f].interviewId,
                               flows[f].file)
     IN \E transferred \in BOOLEAN :
          IF transferred /\ StoragePolicyAllows(fileName, flows[f].user)
          THEN /\ storage' = storage \cup {fileName}
               /\ flows' = [flows EXCEPT ![f].pc = "update"]
          ELSE /\ storage' = storage
               /\ flows' = [flows EXCEPT ![f].pc = "done",
                              ![f].toast = "Upload failed",
                              ![f].currentStep = "idle"]
  /\ UNCHANGED << interviews, statusWrites, summaries, invs,
                  b64, dashboard, tracker, ui >>

\* update({ file_url, status: 'uploaded' }); the result is not inspected.
SU_update(f) ==
  /\ IsFlow(f, "StreamlinedUpload") /\ flows[f].pc = "update"
  /\ LET patch == [file_url |-> PublicUrl(ObjectKey(<< flows[f].user >>,
                                 flows[f].interviewId, flows[f].file)),
                   status |-> "uploaded"]
     IN /\ interviews' = UpdateInterview(interviews, flows[f].interviewId,
                                         patch, flows[f].user)
        /\ statusWrites' = LogStatus(statusWrites, interviews,
                             flows[f].interviewId, patch, flows[f].user,
                             Client(f))
  /\ flows' = [flows EXCEPT ![f].pc = "onload", ![f].currentStep = "processing",
                            ![f].toast = "Upload successful"]
  /\ dashboard' = handleUploadComplete(dashboard, flows[f].interviewId)
  /\ UNCHANGED << summaries, storage, invs, b64, tracker, ui >>

\* processFile: reader.onload invokes the handler for the file's type.
SU_processFile(f) ==
  /\ IsFlow(f, "StreamlinedUpload") /\ flows[f].pc = "onload"
  /\ flows' = [flows EXCEPT ![f].pc = "await", ![f].call = Len(invs) + 1]
  /\ invs' = Append(invs,
       IF flows[f].file.kind = "txt"
       THEN NewInvocation("process-interview", flows[f].user,
              flows[f].interviewId, Undefined, SampleTranscript, Null, ByFlow(f))
       ELSE NewInvocation("transcribe-audio", flows[f].user,
              flows[f].interviewId, Str(btoa(flows[f].file.bytes)), << >>, Null,
              ByFlow(f)))
  /\ UNCHANGED << interviews, statusWrites, summaries, storage,
                  b64, dashboard, tracker, ui >>

\* The invoke promise settles: an error is thrown inside the onload callback.
SU_settled(f) ==
  /\ IsFlow(f, "StreamlinedUpload") /\ flows[f].pc = "await"
  /\ invs[flows[f].call].pc = "done"
  /\ flows' = IF invs[flows[f].call].result.status = 200
              THEN [flows EXCEPT ![f].pc = "done", ![f].currentStep = "complete",
                      ![f].toast = "Analysis complete!"]
              ELSE [flows EXCEPT ![f].pc = "done"]
  /\ dashboard' = IF invs[flows[f].call].result.status = 200
                  THEN handleProcessingComplete(dashboard)
                  ELSE dashboard
  /\ tracker' = Rendered(tracker, dashboard')
  /\ UNCHANGED << interviews, statusWrites, summaries, storage, invs, b64, ui >>

\* A submit the form validation turns away: a toast and nothing else.
RefusedFlow(component, user, file, consentObtained) ==
  [NewFlow(component, user, file, consentObtained, "idle") EXCEPT
     !.pc = "done", !.interviewId = NoId, !.toast = "Missing information"]

\* FileUploadComponent.uploadFile up to the interview insert.
FUC_uploadFile ==
  /\ Len(flows) < MaxFlows
  /\ \E user \in Users, file \in Files, consentObtained \in BOOLEAN :
       IF ~consentObtained
       THEN /\ flows' = Append(flows,
                 RefusedFlow("FileUploadComponent", user, file, consentObtained))
            /\ UNCHANGED << interviews, statusWrites >>
       ELSE /\ flows' = Append(flows,
                 NewFlow("FileUploadComponent", user, file, consentObtained,
                         "uploading"))
            /\ InsertInterview(user, consentObtained, NoUrl, Len(flows) + 1)
  /\ UNCHANGED << summaries, storage, invs, b64, dashboard, tracker, ui >>

\* storage.from('interview-audio').upload(`${interview.id}-${name}`): the key
\* has no folder, so the bucket's insert policy refuses it and the catch
\* block of uploadFile ends the flow.
FUC_upload(f) ==
  /\ IsFlow(f, "FileUploadComponent") /\ flows[f].pc = "upload"
  /\ LET fileName == ObjectKey(<< >>, flows[f].interviewId, flows[f].file)
     IN \E transferred \in BOOLEAN :
          IF transferred /\ StoragePolicyAllows(fileName, flows[f].user)
          THEN /\ storage' = storage \cup {fileName}
               /\ flows' = [flows EXCEPT ![f].pc = "update"]
          ELSE /\ storage' = storage
               /\ flows' = [flows EXCEPT ![f].pc = "done",
                              ![f].toast = "Upload failed",
                              ![f].currentStep = "idle"]
  /\ UNCHANGED << interviews, statusWrites, summaries, invs,
                  b64, dashboard, tracker, ui >>

\* AudioUpload.handleUpload: the form check, then the upload comes first.
AudioFiles == {file \in Files : file.kind = "audio"}
AU_handleUpload ==
  /\ Len(flows) < MaxFlows
  /\ \E user \in Users, file \in AudioFiles, consentObtained \in BOOLEAN :
       flows' = Append(flows,
         IF ~consentObtained
         THEN RefusedFlow("AudioUpload", user, file, consentObtained)
         ELSE [NewFlow("AudioUpload", user, file, consentObtained, "uploading")
                 EXCEPT !.interviewId = NoId])
  /\ UNCHANGED << interviews, statusWrites, summaries, storage, invs,
                  b64, dashboard, tracker, ui >>

\* storage.from('interview-audio').upload(`${user.id}/${Date.now()}.${ext}`):
\* the key names the owner's folder and no interview.
AU_upload(f) ==
  /\ IsFlow(f, "AudioUpload") /\ flows[f].pc = "upload"
  /\ LET fileName == ObjectKey(<< flows[f].user >>, NoId, flows[f].file)
     IN \E transferred \in BOOLEAN :
          IF transferred /\ StoragePolicyAllows(fileName, flows[f].user)
          THEN /\ storage' = storage \cup {fileName}
               /\ flows' = [flows EXCEPT ![f].pc = "insert"]
          ELSE /\ storage' = storage
               /\ flows' = [flows EXCEPT ![f].pc = "done",
                              ![f].toast = "Upload failed",
                              ![f].currentStep = "idle"]
  /\ UNCHANGED << interviews, statusWrites, summaries, invs,
                  b64, dashboard, tracker, ui >>

\* The interview insert with file_url, then the toast; handleUpload returns
\* after onUploadComplete without invoking any function.
AU_insert(f) ==
  /\ IsFlow(f, "AudioUpload") /\ flows[f].pc = "insert"
  /\ InsertInterview(flows[f].user, flows[f].consentObtained,
       PublicUrl(ObjectKey(<< flows[f].user >>, NoId, flows[f].file)), f)
  /\ flows' = [flows EXCEPT ![f].pc = "done",
                 ![f].interviewId = Len(interviews) + 1,
                 ![f].currentStep = "idle",
                 ![f].toast = "Upload successful!"]
  /\ UNCHANGED << summaries, storage, invs, b64, dashboard, tracker, ui >>

\* ------------------------------------------------------------- other views
\* The sequences over set of length at most n.
RECURSIVE SeqsUpTo(_, _)
SeqsUpTo(set, n) ==
  IF n = 0 THEN {<< >>}
  ELSE LET shorter == SeqsUpTo(set, n - 1)
       IN shorter \cup {Append(q, x) : q \in shorter, x \in set}

\* b64 before processBase64Chunks is evaluated.
Idle == [pc |-> "idle", bytes |-> << >>, chunkSize |-> DefaultChunkSize,
         out |-> Decoded(<< >>)]

\* Every component as it is when first rendered.
DashboardIdle ==
  [uploadFlow |-> "idle", currentInterviewId |-> NoId, toast |-> Null]
Pending == [k \in 1..StepCount |-> "pending"]
TrackerIdle ==
  [mounted |-> FALSE, instance |-> 0, steps |-> Pending, overallProgress |-> 0,
   chains |-> << >>, onCompleteCalls |-> 0, renders |-> 0]
ReaderIdle ==
  [id |-> NoId, summary |-> 0, analyticsLoaded |-> FALSE,
   analytics |-> [id \in {} |-> 0]]
HookIdle ==
  [state |-> "initial", pendingUpdates |-> {}, calls |-> << >>,
   rollbackOnError |-> TRUE, toast |-> Null]
WizardIdle ==
  [currentStep |-> 0, progress |-> 0, isActive |-> TRUE, chains |-> << >>,
   onCompleteCalls |-> 0, onSkipCalls |-> 0]

\* ------------------------------------------- Dashboard and ProgressTracker
\* startNewUpload: the Start Analysis button of the idle dashboard.
D_startNewUpload ==
  /\ dashboard.uploadFlow = "idle"
  /\ dashboard' = [dashboard EXCEPT !.uploadFlow = "form"]
  /\ UNCHANGED << interviews, statusWrites, summaries, storage, invs, flows,
                  b64, tracker, ui >>

\* handleFormComplete: SmartForm reports the interview details.
D_handleFormComplete ==
  /\ dashboard.uploadFlow = "form"
  /\ dashboard' = [dashboard EXCEPT !.uploadFlow = "upload",
                                    !.toast = "Form completed"]
  /\ UNCHANGED << interviews, statusWrites, summaries, storage, invs, flows,
                  b64, tracker, ui >>

\* resetUploadFlow: the button of the complete view.
D_resetUploadFlow ==
  /\ dashboard.uploadFlow = "complete"
  /\ dashboard' = [dashboard EXCEPT !.uploadFlow = "idle",
                                    !.currentInterviewId = NoId]
  /\ UNCHANGED << interviews, statusWrites, summaries, storage, invs, flows,
                  b64, tracker, ui >>

\* A timer chain is one call of startProgress: its closure variables
\* stepIndex and totalProgress, and which of its timers is pending (the
\* interval of the active step, or the 500 ms timeout before processStep).
NewChain(instance) ==
  [instance |-> instance, stepIndex |-> 0, totalProgress |-> 0,
   phase |-> "interval"]
\* setSteps in processStep: the step at stepIndex active, those before it
\* completed, the others pending.
StepStatuses(stepIndex) ==
  [k \in 1..StepCount |->
     IF k = stepIndex + 1 THEN "active"
     ELSE IF k < stepIndex + 1 THEN "completed" ELSE "pending"]
\* State setters of a chain act on the component instance that started it,
\* while that instance is rendered.
Live(t, c) == t.mounted /\ t.chains[c].instance = t.instance
\* Timers fired by a chain so far; every chain uses the same durations, so
\* a chain started later stays behind the chains started before it.
Fired(chain) == 2 * chain.stepIndex - (IF chain.phase = "timeout" THEN 1 ELSE 0)
ChainDue(t, c) ==
  \A d \in 1..(c - 1) : Fired(t.chains[d]) > Fired(t.chains[c])

\* First render under uploadFlow 'processing': the effect calls
\* startProgress, which runs processStep for step 0.
PT_mount ==
  /\ dashboard.uploadFlow = "processing" /\ ~tracker.mounted
  /\ dashboard.currentInterviewId # NoId
  /\ tracker' = [tracker EXCEPT
       !.mounted = TRUE, !.instance = @ + 1, !.renders = 0,
       !.steps = StepStatuses(0), !.overallProgress = 0,
       !.chains = Append(@, NewChain(tracker.instance + 1))]
  /\ UNCHANGED << interviews, statusWrites, summaries, storage, invs, flows,
                  b64, dashboard, ui >>

\* The dashboard renders again while the tracker is shown: the tracker gets
\* a new handleProcessingComplete as onComplete, so startProgress is a new
\* callback and the effect calls it again; nothing stops the earlier chain.
D_rerender ==
  /\ tracker.mounted /\ tracker.renders < MaxRenders
  /\ tracker' = [tracker EXCEPT
       !.renders = @ + 1,
       !.steps = StepStatuses(0),
       !.chains = Append(@, NewChain(tracker.instance))]
  /\ UNCHANGED << interviews, statusWrites, summaries, storage, invs, flows,
                  b64, dashboard, ui >>

\* The interval of the active step reaches 100: the step is completed, the
\* chain moves on and schedules processStep.
PT_stepDone(c) ==
  /\ c \in DOMAIN tracker.chains /\ tracker.chains[c].phase = "interval"
  /\ ChainDue(tracker, c)
  /\ LET chain == tracker.chains[c]
         totalProgress == chain.totalProgress + (100 \div StepCount)
         moved == [tracker EXCEPT
                     !.chains[c].stepIndex = @ + 1,
                     !.chains[c].totalProgress = totalProgress,
                     !.chains[c].phase = "timeout"]
     IN tracker' =
          IF Live(tracker, c)
          THEN [moved EXCEPT !.steps[chain.stepIndex + 1] = "completed",
                             !.overallProgress = totalProgress]
          ELSE moved
  /\ UNCHANGED << interviews, statusWrites, summaries, storage, invs, flows,
                  b64, dashboard, ui >>

\* processStep after the timeout: the next step, or onComplete at the end.
PT_processStep(c) ==
  /\ c \in DOMAIN tracker.chains /\ tracker.chains[c].phase = "timeout"
  /\ ChainDue(tracker, c)
  /\ LET chain == tracker.chains[c]
     IN IF chain.stepIndex >= StepCount
        THEN /\ dashboard' = handleProcessingComplete(dashboard)
             /\ tracker' =
                  Rendered([tracker EXCEPT
                              !.chains[c].phase = "finished",
                              !.onCompleteCalls = @ + 1,
                              !.overallProgress =
                                 IF Live(tracker, c) THEN 100 ELSE @],
                           dashboard')
        ELSE /\ dashboard' = dashboard
             /\ tracker' = [tracker EXCEPT
                  !.chains[c].phase = "interval",
                  !.steps = IF Live(tracker, c)
                            THEN StepStatuses(chain.stepIndex) ELSE @]
  /\ UNCHANGED << interviews, statusWrites, summaries, storage, invs, flows,
                  b64, ui >>

\* ------------------------------------------------------------ summary readers
\* created_at DEFAULT now(): rows carry their time of insertion, so a row
\* inserted later has the greater created_at; rows are named by position.
created_at(k) == k
SummariesOf(id) == {k \in DOMAIN summaries : summaries[k].interview_id = id}
\* order('created_at', { ascending: false }).limit(1): the row, 0 if none.
LatestFirst(rows) ==
  IF rows = {} THEN 0
  ELSE CHOOSE k \in rows : \A j \in rows : created_at(j) <= created_at(k)

\* InterviewDetail.loadInterviewData for the interview of the route.
R_loadInterviewData ==
  /\ reader.id = NoId
  /\ \E id \in DOMAIN interviews :
       reader' = [reader EXCEPT !.id = id,
                                !.summary = LatestFirst(SummariesOf(id))]
  /\ UNCHANGED << interviews, statusWrites, summaries, storage, invs, flows,
                  b64, dashboard, tracker, hook, wizard >>

\* Analytics.loadAnalytics: the embedded interview_summaries carry no order
\* clause, so element [0] is whichever row the database returns first.
R_loadAnalytics ==
  /\ ~reader.analyticsLoaded
  /\ LET processedInterviews ==
           {id \in DOMAIN interviews : SummariesOf(id) # {}}
     IN \E first \in [processedInterviews -> DOMAIN summaries] :
          /\ \A id \in processedInterviews : first[id] \in SummariesOf(id)
          /\ reader' = [reader EXCEPT !.analyticsLoaded = TRUE,
                                      !.analytics = first]
  /\ UNCHANGED << interviews, statusWrites, summaries, storage, invs, flows,
                  b64, dashboard, tracker, hook, wizard >>

\* The readers over every small table of stored summaries.
StoredSummary(id) ==
  [interview_id |-> id, template_id |-> Null, summary_content |-> NoContent,
   ai_model_used |-> "gpt-4o-mini", transcript_text |-> SampleTranscript,
   by |-> 0]
InitReaders ==
  /\ interviews = [id \in 1..2 |->
                     [user_id |-> "u1", status |-> "completed",
                      file_url |-> NoUrl, consent_obtained |-> TRUE]]
  /\ statusWrites = [id \in 1..2 |-> << >>]
  /\ \E ids \in SeqsUpTo(1..2, MaxRows) :
       summaries = [k \in DOMAIN ids |-> StoredSummary(ids[k])]
  /\ storage = {} /\ invs = << >> /\ flows = << >> /\ b64 = Idle
  /\ dashboard = DashboardIdle /\ tracker = TrackerIdle
  /\ hook = HookIdle /\ wizard = WizardIdle
  /\ reader = ReaderIdle

NextReaders ==
  \/ R_loadInterviewData
  \/ R_loadAnalytics

SpecReaders == InitReaders /\ [][NextReaders]_vars

\* ---------------------------------------------------------- QuickStartWizard
\* useState(0), useState(0), useState(true); chains holds, for every click on
\* Start Demo, the index of the next timer of that click still to fire:
\* 0..WizardSteps-1 are the step timers, WizardSteps is the closing timer
\* scheduled by the last step timer, WizardSteps+1 means none is left.

\* Timers of one click fire in order of their delays; a later click's timers
\* fire after the same timers of an earlier click.
TimerDue(chains, c) ==
  /\ chains[c] <= WizardSteps
  /\ \A d \in 1..(c - 1) : chains[d] > chains[c]

\* startWizard: the Start Demo button, rendered while isActive.
W_startWizard ==
  /\ wizard.isActive /\ Len(wizard.chains) < MaxStarts
  /\ wizard' = [wizard EXCEPT !.isActive = TRUE, !.currentStep = 0,
                              !.progress = 0, !.chains = Append(@, 0)]
  /\ UNCHANGED << interviews, statusWrites, summaries, storage, invs, flows,
                  b64, dashboard, tracker, hook, reader >>

\* skipWizard: the Skip Tutorial button, rendered while isActive.
W_skipWizard ==
  /\ wizard.isActive
  /\ wizard' = [wizard EXCEPT !.isActive = FALSE, !.onSkipCalls = @ + 1]
  /\ UNCHANGED << interviews, statusWrites, summaries, storage, invs, flows,
                  b64, dashboard, tracker, hook, reader >>

\* A setTimeout callback of startWizard fires; no timer is ever cleared.
W_timer(c) ==
  /\ c \in DOMAIN wizard.chains /\ TimerDue(wizard.chains, c)
  /\ LET index == wizard.chains[c]
     IN wizard' =
          IF index < WizardSteps
          THEN [wizard EXCEPT !.currentStep = index,
                  !.progress = ((index + 1) * 100) \div WizardSteps,
                  !.chains[c] = index + 1]
          ELSE [wizard EXCEPT !.isActive = FALSE,
                  !.onCompleteCalls = @ + 1,
                  !.chains[c] = index + 1]
  /\ UNCHANGED << interviews, statusWrites, summaries, storage, invs, flows,
                  b64, dashboard, tracker, hook, reader >>

InitWizard ==
  /\ interviews = << >> /\ statusWrites = << >> /\ summaries = << >>
  /\ storage = {} /\ invs = << >> /\ flows = << >> /\ b64 = Idle
  /\ dashboard = DashboardIdle /\ tracker = TrackerIdle
  /\ hook = HookIdle /\ reader = ReaderIdle
  /\ wizard = WizardIdle

NextWizard ==
  \/ W_startWizard
  \/ W_skipWizard
  \/ \E c \in DOMAIN wizard.chains : W_timer(c)

SpecWizard == InitWizard /\ [][NextWizard]_vars

\* ------------------------------------------------------ useOptimisticUpdates
\* useState(initialState), useState(new Set()); calls are the invocations of
\* optimisticUpdate in the order they started.
UpdateKeys == {"k1", "k2"}
OptimisticData == {"optimistic-a", "optimistic-b"}
ActualResults == {"actual-x", "actual-y"}
RollbackData == {Null, "rollback"}

\* optimisticUpdate up to its await: the key is added, the state replaced.
H_optimisticUpdate ==
  /\ Len(hook.calls) < MaxHookCalls
  /\ \E updateKey \in UpdateKeys, optimisticData \in OptimisticData,
        rollbackData \in RollbackData :
       hook' = [hook EXCEPT
         !.pendingUpdates = @ \cup {updateKey},
         !.state = optimisticData,
         !.calls = Append(@, [updateKey |-> updateKey,
                              optimisticData |-> optimisticData,
                              rollbackData |-> rollbackData,
                              pc |-> "pending", result |-> Null])]
  /\ UNCHANGED << interviews, statusWrites, summaries, storage, invs, flows,
                  b64, dashboard, tracker, wizard, reader >>

\* newSet.delete(updateKey) on a copy of the previous set.
WithoutKey(pendingUpdates, calls, c) == pendingUpdates \ {calls[c].updateKey}

\* actualUpdate() resolved: the try branch.
H_resolve(c) ==
  /\ c \in DOMAIN hook.calls /\ hook.calls[c].pc = "pending"
  /\ \E result \in ActualResults :
       hook' = [hook EXCEPT
         !.state = result,
         !.pendingUpdates = WithoutKey(@, hook.calls, c),
         !.calls[c].pc = "resolved",
         !.calls[c].result = result]
  /\ UNCHANGED << interviews, statusWrites, summaries, storage, invs, flows,
                  b64, dashboard, tracker, wizard, reader >>

\* actualUpdate() rejected: the catch branch with its rollback and toast.
H_reject(c) ==
  /\ c \in DOMAIN hook.calls /\ hook.calls[c].pc = "pending"
  /\ hook' = [hook EXCEPT
       !.state = IF hook.rollbackOnError /\ hook.calls[c].rollbackData # Null
                 THEN hook.calls[c].rollbackData
                 ELSE @,
       !.pendingUpdates = WithoutKey(@, hook.calls, c),
       !.calls[c].pc = "rejected",
       !.toast = "Update failed"]
  /\ UNCHANGED << interviews, statusWrites, summaries, storage, invs, flows,
                  b64, dashboard, tracker, wizard, reader >>

\* The hook alone, with either value of options.rollbackOnError.
InitHook ==
  /\ interviews = << >> /\ statusWrites = << >> /\ summaries = << >>
  /\ storage = {} /\ invs = << >> /\ flows = << >> /\ b64 = Idle
  /\ dashboard = DashboardIdle /\ tracker = TrackerIdle
  /\ wizard = WizardIdle /\ reader = ReaderIdle
  /\ \E rollbackOnError \in BOOLEAN :
       hook = [HookIdle EXCEPT !.rollbackOnError = rollbackOnError]

NextHook ==
  \/ H_optimisticUpdate
  \/ \E c \in DOMAIN hook.calls : H_resolve(c)
  \/ \E c \in DOMAIN hook.calls : H_reject(c)

SpecHook == InitHook /\ [][NextHook]_vars

\* ------------------------------------------------------------ specification
Init ==
  /\ interviews = << >>
  /\ statusWrites = << >>
  /\ summaries = << >>
  /\ storage = {}
  /\ invs = << >>
  /\ flows = << >>
  /\ b64 = Idle
  /\ dashboard = DashboardIdle
  /\ tracker = TrackerIdle
  /\ hook = HookIdle /\ wizard = WizardIdle /\ reader = ReaderIdle

Next ==
  \/ InvokeTranscribe
  \/ InvokeProcess
  \/ \E i \in DOMAIN invs : T_Authenticate(i)
  \/ \E i \in DOMAIN invs : T_Lookup(i)
  \/ \E i \in DOMAIN invs : T_MarkProcessing(i)
  \/ \E i \in DOMAIN invs : T_Whisper(i)
  \/ \E i \in DOMAIN invs : T_InvokeAnalysis(i)
  \/ \E i \in DOMAIN invs : T_Return(i)
  \/ \E i \in DOMAIN invs : P_Authenticate(i)
  \/ \E i \in DOMAIN invs : P_Template(i)
  \/ \E i \in DOMAIN invs : P_Chat(i)
  \/ \E i \in DOMAIN invs : P_Insert(i)
  \/ \E i \in DOMAIN invs : P_Complete(i)
  \/ SU_startUpload
  \/ \E f \in DOMAIN flows : SU_upload(f)
  \/ \E f \in DOMAIN flows : SU_update(f)
  \/ \E f \in DOMAIN flows : SU_processFile(f)
  \/ \E f \in DOMAIN flows : SU_settled(f)
  \/ FUC_uploadFile
  \/ \E f \in DOMAIN flows : FUC_upload(f)
  \/ D_startNewUpload
  \/ D_handleFormComplete
  \/ D_resetUploadFlow
  \/ AU_handleUpload
  \/ \E f \in DOMAIN flows : AU_upload(f)
  \/ \E f \in DOMAIN flows : AU_insert(f)

Spec == Init /\ [][Next]_vars

\* The dashboard's upload flow on its own: StreamlinedUpload, the handlers
\* it invokes, and the ProgressTracker shown meanwhile.
NextDashboard ==
  \/ D_startNewUpload
  \/ D_handleFormComplete
  \/ D_resetUploadFlow
  \/ D_rerender
  \/ PT_mount
  \/ \E c \in DOMAIN tracker.chains : PT_stepDone(c)
  \/ \E c \in DOMAIN tracker.chains : PT_processStep(c)
  \/ SU_startUpload
  \/ \E f \in DOMAIN flows : SU_upload(f)
  \/ \E f \in DOMAIN flows : SU_update(f)
  \/ \E f \in DOMAIN flows : SU_processFile(f)
  \/ \E f \in DOMAIN flows : SU_settled(f)
  \/ \E i \in DOMAIN invs : T_Authenticate(i)
  \/ \E i \in DOMAIN invs : T_Lookup(i)
  \/ \E i \in DOMAIN invs : T_MarkProcessing(i)
  \/ \E i \in DOMAIN invs : T_Whisper(i)
  \/ \E i \in DOMAIN invs : T_InvokeAnalysis(i)
  \/ \E i \in DOMAIN invs : T_Return(i)
  \/ \E i \in DOMAIN invs : P_Authenticate(i)
  \/ \E i \in DOMAIN invs : P_Template(i)
  \/ \E i \in DOMAIN invs : P_Chat(i)
  \/ \E i \in DOMAIN invs : P_Insert(i)
  \/ \E i \in DOMAIN invs : P_Complete(i)

SpecDashboard == Init /\ [][NextDashboard]_vars

\* ------------------------------------- processBase64Chunks on its own inputs
InitChunks ==
  /\ interviews = << >> /\ statusWrites = << >> /\ summaries = << >>
  /\ storage = {} /\ invs = << >> /\ flows = << >>
  /\ dashboard = DashboardIdle /\ tracker = TrackerIdle
  /\ hook = HookIdle /\ wizard = WizardIdle /\ reader = ReaderIdle
  /\ \E B \in SeqsUpTo(ByteSamples, MaxBytes), c \in 1..MaxChunk :
       b64 = [pc |-> "encoded", bytes |-> B, chunkSize |-> c, out |-> Decoded(<< >>)]

DecodeChunks ==
  /\ b64.pc = "encoded"
  /\ b64' = [b64 EXCEPT !.pc = "decoded",
               !.out = processBase64Chunks(btoa(b64.bytes), b64.chunkSize)]
  /\ UNCHANGED << interviews, statusWrites, summaries, storage, invs, flows,
                  dashboard, tracker, ui >>

NextChunks == DecodeChunks

SpecChunks == InitChunks /\ [][NextChunks]_vars

\* ================================================================== claims
Done(i) == invs[i].pc = "done"
Transcriptions == {i \in DOMAIN invs : invs[i].fn = "transcribe-audio"}
Analyses == {i \in DOMAIN invs : invs[i].fn = "process-interview"}
RowsBy(i) == {k \in DOMAIN summaries : summaries[k].by = i}
RowsFor(id) == {k \in DOMAIN summaries : summaries[k].interview_id = id}
WritesBy(i) ==
  UNION {{<< id, k >> : k \in {n \in DOMAIN statusWrites[id] :
                                statusWrites[id][n].by = ByInvocation(i)}} :
         id \in DOMAIN statusWrites}
ValuesTaken(id) == [k \in DOMAIN statusWrites[id] |-> statusWrites[id][k].val]
Owns(user, id) == id \in DOMAIN interviews /\ interviews[id].user_id = user
ForeignTo(user, id) == id \in DOMAIN interviews /\ interviews[id].user_id # user

\* C1: a handler invocation by an authenticated caller for an interview
\* owned by another user fails, writes no status to that interview and
\* inserts no summary row for it.
C1_ForeignInterviewUntouched ==
  \A i \in DOMAIN invs :
    LET user == getUser(invs[i].auth)
    IN /\ (Done(i) /\ user # Null /\ ForeignTo(user, invs[i].interviewId))
            => ~invs[i].result.success
       /\ \A k \in RowsBy(i) : Owns(user, summaries[k].interview_id)
       /\ \A w \in WritesBy(i) : Owns(user, w[1])

\* C2: an interview's status only moves forward along
\* uploading -> processing -> {completed, failed}; a completed or failed
\* interview keeps its status and none returns to an earlier one.
Rank(status) ==
  IF status = "uploading" THEN 0 ELSE IF status = "processing" THEN 1 ELSE 2
Forward(a, b) == a = b \/ Rank(a) < Rank(b)
C2_StatusOnlyForward ==
  [][\A id \in DOMAIN interviews :
       Forward(interviews[id].status, interviews'[id].status)]_vars

\* C3: an authenticated analysis call whose templateId names no template, or
\* a template of another user, does not fail on that account: it uses the
\* default prompt, inserts the summary row and returns success.
ChatError == "OpenAI API error: statusText"
InterviewMissing ==
  {"null value in column interview_id",
   "violates foreign key constraint on interview_id"}
C3_UnusableTemplateTolerated ==
  \A i \in Analyses :
    (/\ Done(i) /\ getUser(invs[i].auth) # Null
     /\ invs[i].templateId # Null
     /\ Len(templateFor(invs[i].templateId, getUser(invs[i].auth))) = 0
     /\ invs[i].result.error \notin InterviewMissing \cup {ChatError})
    => /\ invs[i].result.success
       /\ invs[i].systemPrompt = "default"
       /\ Cardinality(RowsBy(i)) = 1

\* C4: the transcription handler called for an owned interview with the
\* base64 encoding of an empty byte array fails with EmptyTranscript and
\* leaves the interview's status `processing`.
EmptyAudioCall(i) ==
  /\ i \in Transcriptions /\ Done(i)
  /\ Owns(getUser(invs[i].auth), invs[i].interviewId)
  /\ invs[i].audioData = Str(btoa(<< >>))
C4_EmptyAudioEmptyTranscript ==
  \A i \in DOMAIN invs :
    EmptyAudioCall(i)
    => /\ invs[i].result.error = "No transcription received from OpenAI"
       /\ interviews[invs[i].interviewId].status = "processing"

\* C4 (amended): that call fails with 'Missing interviewId or audioData'
\* before the interview is looked up; it writes no status, sends nothing to
\* the speech-to-text service and starts no analysis.
C4_EmptyAudioBadRequest ==
  \A i \in DOMAIN invs :
    EmptyAudioCall(i)
    => /\ invs[i].result.status = 500 /\ ~invs[i].result.success
       /\ invs[i].result.error = "Missing interviewId or audioData"
       /\ WritesBy(i) = {}
       /\ invs[i].sttCalls = 0 /\ invs[i].child = 0
C4_Witness == \E i \in DOMAIN invs : EmptyAudioCall(i)

\* C5: a successful upload and analysis of a .txt transcript through the
\* client flow takes the interview's status through uploading, processing,
\* completed in that order and inserts exactly one summary row.
TextUploadAnalysed(f) ==
  /\ flows[f].file.kind = "txt" /\ flows[f].pc = "done"
  /\ flows[f].currentStep = "complete"
  /\ \A i \in DOMAIN invs :
       invs[i].interviewId = flows[f].interviewId => i = flows[f].call
C5_TextUploadStatusOrder ==
  \A f \in DOMAIN flows :
    TextUploadAnalysed(f)
    => /\ ValuesTaken(flows[f].interviewId)
            = << "uploading", "processing", "completed" >>
       /\ Cardinality(RowsFor(flows[f].interviewId)) = 1

\* C6: every summary row the analysis handler inserts has a summary_content
\* with exactly the five keys and a non-null ai_model_used.
C6_SummaryShape ==
  \A k \in DOMAIN summaries :
    /\ summaries[k].summary_content.type = "object"
    /\ Keys(summaries[k].summary_content) = SummaryKeys
    /\ summaries[k].ai_model_used # Null

\* C7: when the chat-completion service returns text that is not valid JSON
\* the analysis does not fail on it: the summary content is the fallback
\* object (jobSummary the first 500 characters of the raw text, the other
\* four fields the placeholder), that content is what is stored, and the
\* invocation succeeds unless the database refuses the row.
NotJson(i) == Len(invs[i].aiResponse) > 0 /\ ~JSONparse(invs[i].aiResponse).ok
ExpectedFallback(raw) ==
  [type |-> "object", text |-> << >>,
   fields |-> [k \in SummaryKeys |->
                 IF k = "jobSummary"
                 THEN SubSeq(raw, 1, Min(Len(raw), FallbackLength))
                 ELSE << W("Please review the full analysis") >>]]
InsertErrors ==
  InterviewMissing \cup {"violates foreign key constraint on template_id"}
C7_FallbackStored ==
  \A i \in Analyses :
    NotJson(i)
    => /\ invs[i].summaryContent = ExpectedFallback(invs[i].aiResponse)
       /\ \A k \in RowsBy(i) :
            summaries[k].summary_content = ExpectedFallback(invs[i].aiResponse)
       /\ Done(i) =>
            \/ invs[i].result.success /\ Cardinality(RowsBy(i)) = 1
            \/ invs[i].result.error \in InsertErrors /\ RowsBy(i) = {}
C7_Witness ==
  \E i \in Analyses :
    /\ NotJson(i) /\ Done(i) /\ invs[i].result.success
    /\ Len(invs[i].aiResponse) > FallbackLength
    /\ \E k \in RowsBy(i) :
         Len(summaries[k].summary_content.fields.jobSummary) = FallbackLength

\* C8: for every byte sequence B and chunk size c >= 1,
\* processBase64Chunks(base64(B), c) returns exactly B.
C8_RoundTrip == b64.pc = "decoded" => b64.out = Decoded(b64.bytes)

\* C9: two analysis invocations for the same interview that run concurrently
\* and both get a successful chat answer both succeed: no insert is refused
\* on account of another row or invocation, each leaves its own summary row
\* on the interview, and the status they leave is `completed`.
InsertNotRefused ==
  \A i \in Analyses :
    (/\ invs[i].pc = "insert" /\ invs'[i].pc # "insert"
     /\ invs[i].interviewId \in DOMAIN interviews
     /\ invs[i].templateId \in {Null} \cup DOMAIN Templates)
    => /\ invs'[i].pc = "update"
       /\ summaries' = Append(summaries, summaryRow(i))
BothSucceeded(i, j) ==
  /\ i \in Analyses /\ j \in Analyses /\ i < j
  /\ invs[i].interviewId = invs[j].interviewId
  /\ Done(i) /\ Done(j) /\ invs[i].result.success /\ invs[j].result.success
TwoRows ==
  \A i, j \in DOMAIN invs :
    BothSucceeded(i, j)
    => LET id == invs[i].interviewId
       IN /\ Cardinality(RowsBy(i)) = 1 /\ Cardinality(RowsBy(j)) = 1
          /\ RowsBy(i) \cup RowsBy(j) \subseteq RowsFor(id)
          /\ Cardinality(RowsFor(id)) >= 2
          /\ statusWrites[id][Len(statusWrites[id])].by
               \in {ByInvocation(i), ByInvocation(j)}
             => interviews[id].status = "completed"
C9_ConcurrentAnalysesBothSucceed == []TwoRows /\ [][InsertNotRefused]_vars
\* Invocation j started after i and inserted before i: the two overlapped.
C9_Witness ==
  \E i, j \in DOMAIN invs :
    /\ BothSucceeded(i, j)
    /\ \E ki \in RowsBy(i), kj \in RowsBy(j) : kj < ki
    /\ Cardinality(RowsFor(invs[i].interviewId)) = 2
    /\ interviews[invs[i].interviewId].status = "completed"

\* C10: a transcription invocation rejected for its credential, for a
\* missing interviewId or audioData, or because the interview is absent or
\* not the caller's, has written no status, has not called the
\* speech-to-text service and has not invoked the analysis handler.
Rejections ==
  {"Missing authorization header", "Unauthorized",
   "Missing interviewId or audioData", "Interview not found or unauthorized"}
Rejected(i) ==
  i \in Transcriptions /\ Done(i) /\ invs[i].result.error \in Rejections
C10_RejectedTranscriptionNoEffect ==
  \A i \in DOMAIN invs :
    Rejected(i)
    => /\ WritesBy(i) = {}
       /\ invs[i].sttCalls = 0
       /\ invs[i].child = 0
       /\ \A j \in Analyses : invs[j].caller # ByInvocation(i)
C10_Witness ==
  \E i \in DOMAIN invs :
    /\ Rejected(i)
    /\ invs[i].result.error = "Interview not found or unauthorized"
    /\ ForeignTo(invs[i].user, invs[i].interviewId)
    /\ interviews[invs[i].interviewId].status = "completed"

\* C11: a transcription invocation whose speech-to-text call gets a
\* non-success answer fails with status 500 and an error that carries the
\* body the service sent; the one status it wrote is `processing`, which is
\* the interview's status unless another writer came after it; it inserted
\* no summary row and invoked no analysis.
ErrorBodies == {r.text : r \in {x \in WhisperResponses : ~x.ok}}
WhisperRefused(i) ==
  i \in Transcriptions /\ Done(i) /\ invs[i].result.error = "OpenAI API error: "
LastWriter(id) == statusWrites[id][Len(statusWrites[id])].by
C11_WhisperFailureLeavesProcessing ==
  \A i \in DOMAIN invs :
    WhisperRefused(i)
    => LET id == invs[i].interviewId
       IN /\ invs[i].result.status = 500 /\ ~invs[i].result.success
          /\ invs[i].result.detail \in ErrorBodies
          /\ invs[i].sttCalls = 1
          /\ Cardinality(WritesBy(i)) = 1
          /\ \A w \in WritesBy(i) :
               w[1] = id /\ statusWrites[id][w[2]].val = "processing"
          /\ LastWriter(id) = ByInvocation(i)
               => interviews[id].status = "processing"
          /\ RowsBy(i) = {}
          /\ invs[i].child = 0
          /\ \A j \in Analyses : invs[j].caller # ByInvocation(i)
C11_Witness ==
  \E i \in DOMAIN invs :
    /\ WhisperRefused(i)
    /\ invs[i].result.detail = << W("rate limit") >>
    /\ interviews[invs[i].interviewId].status = "processing"
    /\ RowsFor(invs[i].interviewId) = {}

\* C12: a transcription invocation invokes the analysis handler at most
\* once, only after one successful speech-to-text call that returned
\* non-blank text, and with its own interviewId, that text and the
\* credential it was called with; when the returned text is empty or only
\* whitespace it fails with 'No transcription received from OpenAI' and
\* starts no analysis.
Children(i) == {j \in Analyses : invs[j].caller = ByInvocation(i)}
Blank(text) == \A k \in DOMAIN text : text[k] = Space
EmptyTranscript(i) ==
  /\ i \in Transcriptions /\ Done(i)
  /\ invs[i].result.error = "No transcription received from OpenAI"
C12_AnalysisInvokedOnceAfterTranscript ==
  \A i \in Transcriptions :
    /\ Cardinality(Children(i)) <= 1
    /\ \A j \in Children(i) :
         /\ invs[i].child = j
         /\ invs[i].sttCalls = 1 /\ ~Blank(invs[i].transcript)
         /\ invs[j].interviewId = invs[i].interviewId
         /\ invs[j].transcript = invs[i].transcript
         /\ invs[j].auth = invs[i].auth
    /\ (invs[i].sttCalls = 1 /\ ~WhisperRefused(i) /\ Blank(invs[i].transcript))
         => /\ EmptyTranscript(i)
            /\ invs[i].result.status = 500 /\ ~invs[i].result.success
            /\ invs[i].child = 0 /\ Children(i) = {}
C12_Witness ==
  \E i, k \in Transcriptions :
    /\ Children(i) # {} /\ Done(i) /\ invs[i].result.success
    /\ EmptyTranscript(k) /\ invs[k].transcript = << Space >>

\* C13: an analysis invocation that returned success has inserted exactly
\* one summary row, for its interviewId, and has written `completed` to
\* that interview after the insert; a transcription invocation that
\* returned success has a summary row for its interviewId, inserted by the
\* analysis it invoked.
Succeeded(i) == Done(i) /\ invs[i].result.success
SuccessHasSummary ==
  /\ \A i \in Analyses :
       Succeeded(i)
       => LET id == invs[i].interviewId
          IN /\ Cardinality(RowsBy(i)) = 1
             /\ RowsBy(i) \subseteq RowsFor(id)
             /\ Cardinality(WritesBy(i)) = 1
             /\ \A w \in WritesBy(i) :
                  w[1] = id /\ statusWrites[id][w[2]].val = "completed"
  /\ \A i \in Transcriptions :
       Succeeded(i)
       => \E k \in RowsFor(invs[i].interviewId) : summaries[k].by = invs[i].child
CompletedAfterInsert ==
  \A i \in Analyses :
    (i \in DOMAIN invs' /\ WritesBy(i)' # WritesBy(i))
    => RowsBy(i) # {} /\ summaries' = summaries
C13_SuccessMeansSummaryStored == []SuccessHasSummary /\ [][CompletedAfterInsert]_vars
C13_Witness ==
  \E i \in Transcriptions :
    /\ Succeeded(i) /\ Succeeded(invs[i].child)
    /\ Cardinality(RowsFor(invs[i].interviewId)) = 1
    /\ interviews[invs[i].interviewId].status = "completed"

\* C14: an analysis invocation whose summary insert is refused returns an
\* error response, has inserted no row and has written no status: the
\* refused insert leaves every interview as it was, so the parent
\* interview's status is the one it had when the invocation started unless
\* some other invocation wrote it meanwhile.
InsertFailed(i) ==
  i \in Analyses /\ Done(i) /\ invs[i].result.error \in InsertErrors
FailedInsertWroteNothing ==
  \A i \in DOMAIN invs :
    InsertFailed(i)
    => /\ invs[i].result.status = 500 /\ ~invs[i].result.success
       /\ RowsBy(i) = {}
       /\ WritesBy(i) = {}
RefusedInsertStep ==
  \A i \in Analyses :
    (invs[i].pc = "insert" /\ invs'[i].pc = "done")
    => /\ interviews' = interviews /\ statusWrites' = statusWrites
       /\ summaries' = summaries
       /\ invs'[i].result.error \in InsertErrors
C14_FailedInsertKeepsStatus ==
  []FailedInsertWroteNothing /\ [][RefusedInsertStep]_vars
C14_Witness ==
  \E i \in DOMAIN invs :
    /\ InsertFailed(i)
    /\ invs[i].interviewId \in DOMAIN interviews
    /\ ValuesTaken(invs[i].interviewId) = << "uploading" >>
    /\ interviews[invs[i].interviewId].status = "uploading"

\* C15: no invocation retries: each one sends at most one request to its
\* AI endpoint and stores at most one summary row, every step of a handler
\* runs at most once and in order, and an analysis whose chat request got a
\* non-success answer fails having inserted no row and written no status.
TranscribeSteps ==
  << "start", "lookup", "update", "whisper", "invoke", "await", "done" >>
ProcessSteps == << "start", "template", "chat", "insert", "update", "done" >>
StepIndex(fn, pc) ==
  LET steps == IF fn = "transcribe-audio" THEN TranscribeSteps ELSE ProcessSteps
  IN CHOOSE k \in DOMAIN steps : steps[k] = pc
ChatRefused(i) == i \in Analyses /\ Done(i) /\ invs[i].result.error = ChatError
AtMostOnce ==
  \A i \in DOMAIN invs :
    /\ invs[i].sttCalls + invs[i].chatCalls <= 1
    /\ i \in Transcriptions => invs[i].chatCalls = 0
    /\ i \in Analyses => invs[i].sttCalls = 0
    /\ Cardinality(RowsBy(i)) <= 1
    /\ ChatRefused(i)
         => /\ invs[i].result.status = 500 /\ ~invs[i].result.success
            /\ invs[i].chatCalls = 1
            /\ RowsBy(i) = {} /\ WritesBy(i) = {}
StepsInOrder ==
  \A i \in DOMAIN invs :
    invs'[i] # invs[i]
    => StepIndex(invs[i].fn, invs'[i].pc) > StepIndex(invs[i].fn, invs[i].pc)
C15_NoRetry == []AtMostOnce /\ [][StepsInOrder]_vars
C15_Witness ==
  \E i \in DOMAIN invs :
    /\ ChatRefused(i)
    /\ invs[i].interviewId \in DOMAIN interviews
    /\ RowsFor(invs[i].interviewId) = {}
    /\ \E t \in Transcriptions :
         invs[t].child = i /\ invs[t].sttCalls = 1
           /\ interviews[invs[i].interviewId].status = "processing"

\* C16: every finished invocation of either handler returned one of two
\* responses: status 500 with success false and an error message, or
\* status 200 with success true and no error; the second only when every
\* step of the handler went through (caller authenticated, the interview
\* the caller's for a transcription, one AI answer accepted, the summary
\* row stored and `completed` written, by the invocation itself or by the
\* analysis it invoked).
AllStepsPassed(i) ==
  /\ invs[i].user # Null
  /\ IF i \in Analyses
     THEN /\ invs[i].chatCalls = 1 /\ Len(invs[i].aiResponse) > 0
          /\ Cardinality(RowsBy(i)) = 1
          /\ \E w \in WritesBy(i) :
               statusWrites[w[1]][w[2]].val = "completed"
     ELSE /\ Owns(invs[i].user, invs[i].interviewId)
          /\ atob(invs[i].audioData.s).ok
          /\ invs[i].sttCalls = 1 /\ ~Blank(invs[i].transcript)
          /\ invs[i].child \in Analyses
          /\ Done(invs[i].child) /\ invs[invs[i].child].result.success
C17_StatusInDomain ==
  \A id \in DOMAIN interviews : interviews[id].status \in StatusValues
PostUploadUpdateIssued(f) ==
  /\ flows[f].component = "StreamlinedUpload"
  /\ flows[f].pc \in {"onload", "await", "done"}
  /\ flows[f].toast # "Upload failed"
C17_Witness ==
  \E f \in DOMAIN flows :
    /\ PostUploadUpdateIssued(f) /\ flows[f].pc = "onload"
    /\ interviews[flows[f].interviewId].status = "uploading"

\* C18: in the flows that insert the interview row before uploading
\* (FileUploadComponent.uploadFile, StreamlinedUpload.startUpload), once the
\* flow has invoked a handler the row's file_url holds the public URL of
\* the object the flow uploaded.
FlowKey(f) ==
  ObjectKey(IF flows[f].component = "FileUploadComponent" THEN << >>
            ELSE << flows[f].user >>,
            IF flows[f].component = "AudioUpload" THEN NoId
            ELSE flows[f].interviewId,
            flows[f].file)
Uploaded(f) ==
  FlowKey(f) \in storage /\ flows[f].toast \notin {"Upload failed",
                                                     "Missing information"}
C18_FileUrlSetBeforeInvoke ==
  \A f \in DOMAIN flows :
    (/\ flows[f].component \in {"FileUploadComponent", "StreamlinedUpload"}
     /\ Uploaded(f) /\ flows[f].call # 0)
    => interviews[flows[f].interviewId].file_url = PublicUrl(FlowKey(f))

\* C19: every interview row a client upload flow created together with a
\* successfully uploaded file gets a handler invocation from that flow: a
\* flow whose code has run to its end (nothing of it is pending any more)
\* has invoked the transcription handler for an audio file or the
\* analysis handler for a .txt file, with the row's id.
Finished(f) == flows[f].pc = "done"
RowCreated(f) == flows[f].interviewId \in DOMAIN interviews
HandlerInvoked(f) ==
  \E i \in DOMAIN invs :
    /\ invs[i].caller = ByFlow(f)
    /\ invs[i].interviewId = flows[f].interviewId
    /\ invs[i].fn = IF flows[f].file.kind = "txt" THEN "process-interview"
                    ELSE "transcribe-audio"
C19_UploadedRowGetsHandler ==
  \A f \in DOMAIN flows :
    (Finished(f) /\ RowCreated(f) /\ Uploaded(f)) => HandlerInvoked(f)

\* C20: every interview row a client upload flow created from an audio
\* file has consent_obtained = true.
C20_AudioRowHasConsent ==
  \A f \in DOMAIN flows :
    (RowCreated(f) /\ flows[f].file.kind = "audio")
    => interviews[flows[f].interviewId].consent_obtained

\* C21: every object in bucket interview-audio has a key whose first path
\* segment is the id of the user who owns the interview it belongs to and
\* whose name carries the id of that interview row.
C21_ObjectKeyForm ==
  \A key \in storage :
    /\ Len(key.folder) > 0
    /\ key.id \in DOMAIN interviews
    /\ interviews[key.id].user_id = key.folder[1]

\* C22: invocations for one interview are not mutually excluded and the
\* transcription handler's `processing` write is unconditional: it lands
\* whatever the status was, so the status an interview shows is the one of
\* its last writer.  Hence the interleaving of C22_Witness: a transcription
\* and an analysis for one interview overlap, both have returned, the
\* analysis stored its summary row and wrote `completed`, and the
\* transcription's later `processing` write is what remains.
ProcessingWriteLands ==
  \A i \in Transcriptions :
    (invs[i].pc = "update" /\ invs'[i].pc # "update")
    => /\ interviews'[invs[i].interviewId].status = "processing"
       /\ LastWriter(invs[i].interviewId)' = ByInvocation(i)
LastWriteShows ==
  \A id \in DOMAIN interviews :
    interviews[id].status = statusWrites[id][Len(statusWrites[id])].val
C22_ProcessingOverwritesCompleted ==
  []LastWriteShows /\ [][ProcessingWriteLands]_vars
C22_Witness ==
  \E i \in Transcriptions, j \in Analyses :
    LET id == invs[i].interviewId
    IN /\ i < j /\ invs[j].interviewId = id /\ invs[j].caller # ByInvocation(i)
       /\ \A k \in DOMAIN invs : Done(k)
       /\ Succeeded(j) /\ RowsBy(j) # {} /\ RowsBy(j) \subseteq RowsFor(id)
       /\ ValuesTaken(id) = << "uploading", "completed", "processing" >>
       /\ LastWriter(id) = ByInvocation(i)
       /\ interviews[id].status = "processing"

\* C23: no handler writes status `failed`: every status a transcription
\* invocation writes is `processing`, every status an analysis invocation
\* writes is `completed`; a client flow writes `failed` only from
\* FileUploadComponent's audio path after its transcribe-audio call
\* reported an error, and a flow whose text analysis failed has written no
\* status after the row's initial `uploading`.
FlowCallFailed(f) ==
  /\ flows[f].call \in DOMAIN invs /\ Done(flows[f].call)
  /\ ~invs[flows[f].call].result.success
WriteAllowed(w) ==
  IF w.by.kind = "invocation"
  THEN w.val = IF w.by.id \in Transcriptions THEN "processing" ELSE "completed"
  ELSE \/ w.val = "uploading"
       \/ /\ w.val = "failed"
          /\ flows[w.by.id].component = "FileUploadComponent"
          /\ flows[w.by.id].file.kind = "audio"
          /\ FlowCallFailed(w.by.id)
C23_OnlyClientWritesFailed ==
  /\ \A id \in DOMAIN statusWrites :
       \A k \in DOMAIN statusWrites[id] : WriteAllowed(statusWrites[id][k])
  /\ \A f \in DOMAIN flows :
       (flows[f].file.kind = "txt" /\ FlowCallFailed(f))
       => \A k \in DOMAIN statusWrites[flows[f].interviewId] :
            statusWrites[flows[f].interviewId][k].by = ByFlow(f) => k = 1
C23_Witness ==
  \E f \in DOMAIN flows, i \in Transcriptions :
    /\ flows[f].file.kind = "txt" /\ FlowCallFailed(f) /\ Finished(f)
    /\ WhisperRefused(i) /\ invs[i].interviewId = flows[f].interviewId
    /\ interviews[flows[f].interviewId].status = "processing"

\* C25: in every client upload flow, once the handler it invoked has
\* reported an error and the flow's code has run to its end, the user has
\* been shown a failure toast and the flow is back at a step from which the
\* upload can be started again (StreamlinedUpload's currentStep is `idle`,
\* not `processing`).
FailureToasts == {"Processing failed", "Upload failed"}
C25_HandlerErrorShownAndIdle ==
  \A f \in DOMAIN flows :
    (Finished(f) /\ FlowCallFailed(f))
    => flows[f].toast \in FailureToasts /\ flows[f].currentStep = "idle"

\* C27: isPending(k) is true whenever some optimisticUpdate call with key k
\* has started and not settled, also when calls with one key overlap; and
\* once every call has settled pendingUpdates is empty.
isPending(updateKey) == updateKey \in hook.pendingUpdates
InFlight(updateKey) ==
  \E c \in DOMAIN hook.calls :
    hook.calls[c].pc = "pending" /\ hook.calls[c].updateKey = updateKey
AllSettled == \A c \in DOMAIN hook.calls : hook.calls[c].pc # "pending"
C27_PendingWhileInFlight ==
  /\ \A k \in UpdateKeys : InFlight(k) => isPending(k)
  /\ AllSettled => hook.pendingUpdates = {}

\* C28: once all of a set of overlapping optimisticUpdate calls have
\* settled, the state is the outcome of the call that started last: its
\* result if it resolved, its rollbackData if it was rejected with rollback.
C28_LastStartedWins ==
  (AllSettled /\ Len(hook.calls) > 0)
  => LET last == hook.calls[Len(hook.calls)]
     IN /\ last.pc = "resolved" => hook.state = last.result
        /\ (last.pc = "rejected" /\ hook.rollbackOnError
              /\ last.rollbackData # Null)
             => hook.state = last.rollbackData

\* C29: over any sequence of Start Demo and Skip Tutorial clicks the wizard
\* calls at most one of onComplete and onSkip and calls it at most once (so
\* never onComplete after a skip), and currentStep only stays or advances
\* by one.
OneCallback == wizard.onCompleteCalls + wizard.onSkipCalls <= 1
StepAdvances ==
  wizard'.currentStep \in {wizard.currentStep, wizard.currentStep + 1}
C29_WizardCallsBackOnce == []OneCallback /\ [][StepAdvances]_vars

\* C26: every UI reader that surfaces a summary of an interview with
\* several summary rows (InterviewDetail.loadInterviewData,
\* Analytics.loadAnalytics) uses the row with the greatest created_at.
IsLatest(k, id) ==
  k \in SummariesOf(id)
    /\ \A j \in SummariesOf(id) : created_at(j) <= created_at(k)
C26_ReadersUseLatest ==
  /\ (reader.id # NoId /\ SummariesOf(reader.id) # {})
       => IsLatest(reader.summary, reader.id)
  /\ reader.analyticsLoaded
       => \A id \in DOMAIN reader.analytics : IsLatest(reader.analytics[id], id)

\* C24: the dashboard's upload flow is `complete` only when the handler
\* invocation made for the current interview has returned success; the
\* progress animation running out of timers never puts it there.
CurrentHandlerSucceeded ==
  \E f \in DOMAIN flows :
    /\ flows[f].interviewId = dashboard.currentInterviewId
    /\ flows[f].call \in DOMAIN invs
    /\ Succeeded(flows[f].call)
C24_CompleteOnlyAfterSuccess ==
  dashboard.uploadFlow = "complete" => CurrentHandlerSucceeded

\* C30: in ProgressTracker, for one interviewId and across re-renders of
\* the parent, the steps become active and then completed strictly in
\* order with at most one active at a time, overallProgress never
\* decreases, and onComplete is called at most once and only when all
\* four steps are completed and overallProgress is 100.
StatusRank(status) ==
  IF status = "pending" THEN 0 ELSE IF status = "active" THEN 1 ELSE 2
OnCompleteCallsOf(t, instance) ==
  Cardinality({c \in DOMAIN t.chains :
                 t.chains[c].instance = instance
                   /\ t.chains[c].phase = "finished"})
TrackerInOrder ==
  /\ Cardinality({k \in 1..StepCount : tracker.steps[k] = "active"}) <= 1
  /\ \A k \in 1..(StepCount - 1) :
       tracker.steps[k + 1] # "pending" => tracker.steps[k] = "completed"
  /\ \A n \in 1..tracker.instance : OnCompleteCallsOf(tracker, n) <= 1
TrackerAdvances ==
  tracker'.instance = tracker.instance
  => /\ tracker'.overallProgress >= tracker.overallProgress
     /\ \A k \in 1..StepCount :
          StatusRank(tracker'.steps[k]) >= StatusRank(tracker.steps[k])
     /\ (tracker.mounted
           /\ OnCompleteCallsOf(tracker', tracker.instance)
                > OnCompleteCallsOf(tracker, tracker.instance))
        => /\ \A k \in 1..StepCount : tracker.steps[k] = "completed"
           /\ tracker'.overallProgress = 100
C30_TrackerStepsInOrder == []TrackerInOrder /\ [][TrackerAdvances]_vars

====
